---- MODULE Spec2Model ----
(***************************************************************************)
(* Identity reconciliation service (bitespeed_task).                       *)
(*                                                                         *)
(* The model follows src/src/services/identify.ts: the two normalizers,    *)
(* validateInput, identifyInTransaction (one serializable transaction over *)
(* the Contact table) and the retry loop of identifyContact, together with *)
(* the partial unique index on Contact.email of the migration.             *)
(*                                                                         *)
(* Strings are sequences of one-character strings, so that trimming,       *)
(* lower-casing and stripping are computed.  undefined / SQL NULL is the   *)
(* one-element sequence NULL, which is no sequence of characters.          *)
(***************************************************************************)
EXTENDS Integers, Sequences, FiniteSets, TLC

VARIABLES
    db,        \* the committed Contact table: a sequence of rows, row i has id i
    pc,        \* per caller: "idle", or "inTx" inside prisma.$transaction
    input,     \* per caller: the IdentifyRequest it was called with
    attempt,   \* per caller: the loop variable of the retry loop
    snap,      \* per caller: the snapshot its open transaction reads
    budget,    \* calls that may still start; Unlimited where none are counted
    prior,     \* history, per caller: how its call relates to the call before
    last       \* history: the call that finished in the latest step

vars == <<db, pc, input, attempt, snap, budget, prior, last>>

----------------------------------------------------------------------------
(* Bounds of the model *)

MaxContacts == 3      \* rows the table may hold
MaxCalls == 4         \* calls that callers running side by side start in all

Unlimited == MaxCalls + 1     \* the budget where calls are not counted

(* Program constants *)

MAX_SERIALIZABLE_RETRIES == 3

NULL == <<"null">>
NoId == 0

Callers == {"c1", "c2"}

(* The raw strings a caller may send.  " A" normalizes to "a", "(1)" to    *)
(* "1"; " " and "-" normalize to nothing.                                  *)
RawEmails == {NULL, <<" ", "A">>, <<"b">>}
RawPhones == {NULL, <<"(", "1", ")">>, <<"2">>}

Requests ==
    [email : RawEmails, phoneNumber : RawPhones]
    \cup {[email |-> <<" ">>, phoneNumber |-> <<"-">>]}

(* The requests of callers that run side by side: they overlap in the      *)
(* email "a" and the phone "1".                                            *)
OverlappingRequests ==
    {in \in [email : {NULL, <<" ", "A">>, <<"b">>}, phoneNumber : {NULL, <<"(", "1", ")">>}] :
        in.email # <<"b">> \/ in.phoneNumber # NULL}

----------------------------------------------------------------------------
(* String helpers: what the JavaScript string methods compute *)

IsSpace(ch) == ch = " "

ToLowerChar(ch) ==
    CASE ch = "A" -> "a"
      [] ch = "B" -> "b"
      [] OTHER -> ch

ToLowerCase(s) == [i \in 1..Len(s) |-> ToLowerChar(s[i])]

RECURSIVE TrimStart(_)
TrimStart(s) ==
    IF s # <<>> /\ IsSpace(Head(s)) THEN TrimStart(Tail(s)) ELSE s

RECURSIVE TrimEnd(_)
TrimEnd(s) ==
    IF s # <<>> /\ IsSpace(s[Len(s)]) THEN TrimEnd(SubSeq(s, 1, Len(s) - 1)) ELSE s

Trim(s) == TrimEnd(TrimStart(s))

(* replace(/[\s\-\.()]/g, '') *)
StripChars == {" ", "-", ".", "(", ")"}

StripPhoneChars(s) == SelectSeq(s, LAMBDA ch : ch \notin StripChars)

(* Mutant: trims but does not strip the phone's formatting characters *)
normalizePhoneNoStrip(value) ==
    IF value = NULL THEN NULL
    ELSE LET s == Trim(value) IN IF s = <<>> THEN NULL ELSE s

normalizePhone(value) ==
    IF value = NULL THEN NULL
    ELSE LET s == Trim(StripPhoneChars(value)) IN IF s = <<>> THEN NULL ELSE s

normalizeEmail(value) ==
    IF value = NULL THEN NULL
    ELSE LET s == Trim(ToLowerCase(value)) IN IF s = <<>> THEN NULL ELSE s

(* Mutant: looks at the raw strings, not at the normalized ones *)
validateInputRaw(in) == ~(in.email = NULL /\ in.phoneNumber = NULL)

(* validateInput: TRUE when it returns, FALSE when it throws statusCode 400 *)
validateInput(in) ==
    LET email == normalizeEmail(in.email)
        phoneNumber == normalizePhone(in.phoneNumber)
    IN ~(email = NULL /\ phoneNumber = NULL)

----------------------------------------------------------------------------
(* The Contact table *)

Contact(id, email, phoneNumber, linkPrecedence, linkedId, createdAt) ==
    [id |-> id, email |-> email, phoneNumber |-> phoneNumber,
     linkPrecedence |-> linkPrecedence, linkedId |-> linkedId,
     createdAt |-> createdAt, deletedAt |-> NULL]

Rows(store) == {store[i] : i \in DOMAIN store}

(* orderBy: { createdAt: 'asc' }: every order of the rows that is ascending *)
(* in createdAt; rows of equal createdAt come back in any order.            *)
OrderByCreatedAt(S) ==
    {s \in [1..Cardinality(S) -> S] :
        \A i, j \in 1..Cardinality(S) :
            i < j => (s[i] # s[j] /\ s[i].createdAt <= s[j].createdAt)}

(* createdAt @default(now()): the clock never runs backwards, and two rows *)
(* created within one millisecond carry the same value.                    *)
CreatedAtChoices(store) ==
    IF store = <<>> THEN {1}
    ELSE LET m == CHOOSE t \in {store[i].createdAt : i \in DOMAIN store} :
                      \A i \in DOMAIN store : store[i].createdAt <= t
         IN {m, m + 1}

(* CREATE UNIQUE INDEX unique_email_not_null ON "Contact"(email)           *)
(* WHERE email IS NOT NULL                                                 *)
UniqueEmailViolated(store, email) ==
    email # NULL /\ \E c \in Rows(store) : c.email = email

(* tx.contact.create; the id is the next value of the autoincrement *)
CreateContact(store, email, phoneNumber, linkPrecedence, linkedId, createdAt) ==
    Append(store, Contact(Len(store) + 1, email, phoneNumber,
                          linkPrecedence, linkedId, createdAt))

(* Mutant: the update sets linkPrecedence and leaves linkedId as it was *)
UpdateManyPrecedenceOnly(store, ids, primaryId) ==
    [i \in DOMAIN store |->
        IF store[i].id \in ids
        THEN [store[i] EXCEPT !.linkPrecedence = "secondary"]
        ELSE store[i]]

(* tx.contact.updateMany({ where: { id: { in: ids } },                     *)
(*                         data: { linkPrecedence: 'secondary', linkedId } }) *)
UpdateManyToSecondary(store, ids, primaryId) ==
    [i \in DOMAIN store |->
        IF store[i].id \in ids
        THEN [store[i] EXCEPT !.linkPrecedence = "secondary", !.linkedId = primaryId]
        ELSE store[i]]

(* where: { deletedAt: null, OR: [{ email }, { phoneNumber }] } *)
DirectMatches(store, email, phoneNumber) ==
    {c \in Rows(store) :
        /\ c.deletedAt = NULL
        /\ \/ (email # NULL /\ c.email = email)
           \/ (phoneNumber # NULL /\ c.phoneNumber = phoneNumber)}

(* where: { deletedAt: null, OR: [{ id: primary.id }, { linkedId: primary.id }] } *)
GroupRootedAt(store, primaryId) ==
    {c \in Rows(store) :
        c.deletedAt = NULL /\ (c.id = primaryId \/ c.linkedId = primaryId)}

----------------------------------------------------------------------------
(* identifyInTransaction, step by step *)

SeqIds(group) == {group[i].id : i \in DOMAIN group}

(* Mutant: the round's query looks for shared emails only *)
NextMatchesByEmail(store, group) ==
    LET emails == {group[i].email : i \in DOMAIN group} \ {NULL}
    IN {c \in Rows(store) :
           /\ c.deletedAt = NULL
           /\ c.id \notin SeqIds(group)
           /\ c.email \in emails}

(* Mutant: the round's query does not exclude the ids already in the group *)
NextMatchesRevisiting(store, group) ==
    LET emails == {group[i].email : i \in DOMAIN group} \ {NULL}
        phones == {group[i].phoneNumber : i \in DOMAIN group} \ {NULL}
    IN {c \in Rows(store) :
           /\ c.deletedAt = NULL
           /\ (c.email \in emails \/ c.phoneNumber \in phones)}

(* One round's query of the expansion loop *)
NextMatches(store, group) ==
    LET emails == {group[i].email : i \in DOMAIN group} \ {NULL}
        phones == {group[i].phoneNumber : i \in DOMAIN group} \ {NULL}
    IN {c \in Rows(store) :
           /\ c.deletedAt = NULL
           /\ c.id \notin SeqIds(group)
           /\ (c.email \in emails \/ c.phoneNumber \in phones)}

(* while (true) { ... if (next.length === 0) break; group.push(...next) }: *)
(* the set of arrays the loop can end with, one per order of the results   *)
RECURSIVE ExpandGroup(_, _)
ExpandGroup(store, group) ==
    LET next == NextMatches(store, group)
    IN IF next = {} THEN {group}
       ELSE UNION {ExpandGroup(store, group \o o) : o \in OrderByCreatedAt(next)}

(* The same loop, round by round: the arrays `group` holds at the start of *)
(* each round, for at most `rounds` rounds that push                       *)
RECURSIVE ExpandRounds(_, _, _)
ExpandRounds(store, group, rounds) ==
    LET next == NextMatches(store, group)
    IN IF next = {} \/ rounds = 0 THEN {<<group>>}
       ELSE {<<group>> \o t :
               t \in UNION {ExpandRounds(store, group \o o, rounds - 1)
                              : o \in OrderByCreatedAt(next)}}

(* (a, b) => (a.createdAt < b.createdAt ? -1 : 1) *)
CompareCreatedAt(a, b) == IF a.createdAt < b.createdAt THEN -1 ELSE 1

(* Array.prototype.sort on a short array is a binary insertion sort: the   *)
(* pivot goes behind every element it does not compare below.              *)
InsertSorted(sorted, pivot) ==
    LET k == Cardinality({i \in DOMAIN sorted : CompareCreatedAt(pivot, sorted[i]) >= 0})
    IN SubSeq(sorted, 1, k) \o <<pivot>> \o SubSeq(sorted, k + 1, Len(sorted))

RECURSIVE ArraySortFrom(_, _, _)
ArraySortFrom(arr, i, sorted) ==
    IF i > Len(arr) THEN sorted
    ELSE ArraySortFrom(arr, i + 1, InsertSorted(sorted, arr[i]))

ArraySort(arr) == ArraySortFrom(arr, 1, <<>>)

(* let primary = group[0]; for (const c of group) if (c.createdAt < primary.createdAt) primary = c *)
RECURSIVE OldestFrom(_, _, _)
OldestFrom(group, i, primary) ==
    IF i > Len(group) THEN primary
    ELSE OldestFrom(group, i + 1,
                    IF group[i].createdAt < primary.createdAt THEN group[i] ELSE primary)

ElectPrimary(group) == OldestFrom(group, 1, group[1])

(* Mutant: every other member of the group is re-pointed at the primary *)
OtherMembers(group, primary) ==
    {group[i].id : i \in {j \in DOMAIN group : group[j].id # primary.id}}

OtherPrimaries(group, primary) ==
    {group[i].id : i \in {j \in DOMAIN group :
        group[j].id # primary.id /\ group[j].linkPrecedence = "primary"}}

(* Mutant: only a new email makes a secondary *)
ShouldCreateSecondaryEmailOnly(normalizedGroup, email, phoneNumber) ==
    LET existingEmails == {normalizeEmail(c.email) : c \in normalizedGroup} \ {NULL}
    IN email # NULL /\ email \notin existingEmails

(* Mutant: an attribute the request leaves out counts as new when the     *)
(* group carries a value for it                                            *)
ShouldCreateSecondaryOnAbsence(normalizedGroup, email, phoneNumber) ==
    LET existingEmails == {normalizeEmail(c.email) : c \in normalizedGroup} \ {NULL}
        existingPhones == {normalizePhone(c.phoneNumber) : c \in normalizedGroup} \ {NULL}
    IN \/ (email # NULL /\ email \notin existingEmails)
       \/ (phoneNumber # NULL /\ phoneNumber \notin existingPhones)
       \/ (email = NULL /\ existingEmails # {})
       \/ (phoneNumber = NULL /\ existingPhones # {})

ShouldCreateSecondary(normalizedGroup, email, phoneNumber) ==
    LET existingEmails == {normalizeEmail(c.email) : c \in normalizedGroup} \ {NULL}
        existingPhones == {normalizePhone(c.phoneNumber) : c \in normalizedGroup} \ {NULL}
    IN \/ (email # NULL /\ email \notin existingEmails)
       \/ (phoneNumber # NULL /\ phoneNumber \notin existingPhones)

(* for (const v of others) if (!seen.has(v)) { seen.add(v); list.push(v) } *)
RECURSIVE PushUnseen(_, _, _)
PushUnseen(list, others, i) ==
    IF i > Len(others) THEN list
    ELSE PushUnseen(IF \E k \in DOMAIN list : list[k] = others[i].value
                    THEN list ELSE Append(list, others[i].value),
                    others, i + 1)

(* Mutant: no value is held back as seen: the primary's own first, then    *)
(* the value of every contact of the final group                           *)
UniqueValuesRepeating(finalGroup, freshPrimary, f) ==
    LET first == IF freshPrimary[f] # NULL THEN <<freshPrimary[f]>> ELSE <<>>
        kept == SelectSeq(finalGroup, LAMBDA c : c[f] # NULL /\ c.id # freshPrimary.id)
    IN first \o [i \in DOMAIN kept |-> kept[i][f]]

(* The emails (f = "email") or phoneNumbers (f = "phoneNumber") of the response *)
UniqueValues(finalGroup, freshPrimary, f) ==
    LET first == IF freshPrimary[f] # NULL THEN <<freshPrimary[f]>> ELSE <<>>
        kept == SelectSeq(finalGroup,
                          LAMBDA c : c[f] # NULL /\ c[f] # freshPrimary[f])
        others == [i \in DOMAIN kept |->
                      [value |-> kept[i][f], createdAt |-> kept[i].createdAt]]
    IN PushUnseen(first, ArraySort(others), 1)

(* .sort((a, b) => a - b) *)
RECURSIVE SortAscending(_)
SortAscending(S) ==
    IF S = {} THEN <<>>
    ELSE LET m == CHOOSE x \in S : \A y \in S : x <= y
         IN <<m>> \o SortAscending(S \ {m})

(* Mutant: the ids are listed from the highest down *)
SecondaryContactIdsDescending(finalGroup, freshPrimary) ==
    LET ids == SortAscending({finalGroup[i].id : i \in {j \in DOMAIN finalGroup :
                   /\ finalGroup[j].linkPrecedence = "secondary"
                   /\ finalGroup[j].linkedId = freshPrimary.id}})
    IN [i \in DOMAIN ids |-> ids[Len(ids) + 1 - i]]

SecondaryContactIds(finalGroup, freshPrimary) ==
    SortAscending({finalGroup[i].id : i \in {j \in DOMAIN finalGroup :
        /\ finalGroup[j].linkPrecedence = "secondary"
        /\ finalGroup[j].linkedId = freshPrimary.id}})

Response(primaryContatctId, emails, phoneNumbers, secondaryContactIds) ==
    [primaryContatctId |-> primaryContatctId, emails |-> emails,
     phoneNumbers |-> phoneNumbers, secondaryContactIds |-> secondaryContactIds]

NoResponse == Response(NoId, <<>>, <<>>, <<>>)

(* What one run of the transaction body yields: the table it would commit, *)
(* the response, and what it did on the way (for the properties below).    *)
TxOk(store, response, group, created, demoted) ==
    [ok |-> TRUE, code |-> "", store |-> store, response |-> response,
     group |-> group, created |-> created, demoted |-> demoted]

(* A run that threw: `store` is the table as the transaction had written   *)
(* it when the query failed, `demoted` the primaries it had updated.       *)
TxThrows(code, group, written, demoted) ==
    [ok |-> FALSE, code |-> code, store |-> written, response |-> NoResponse,
     group |-> group, created |-> NoId, demoted |-> demoted]

(* Mutant: the new contact is reported among the secondaries as well *)
CreatePrimaryListed(store, email, phoneNumber) ==
    {LET created == Contact(Len(store) + 1, email, phoneNumber, "primary", NoId, t)
     IN TxOk(CreateContact(store, email, phoneNumber, "primary", NoId, t),
             Response(created.id,
                      IF created.email # NULL THEN <<created.email>> ELSE <<>>,
                      IF created.phoneNumber # NULL THEN <<created.phoneNumber>> ELSE <<>>,
                      <<created.id>>),
             {}, created.id, {})
     : t \in CreatedAtChoices(store)}

(* Lines 65-84: no direct match *)
CreatePrimary(store, email, phoneNumber) ==
    IF UniqueEmailViolated(store, email) THEN {TxThrows("P2002", {}, store, {})}
    ELSE {LET created == Contact(Len(store) + 1, email, phoneNumber, "primary", NoId, t)
          IN TxOk(CreateContact(store, email, phoneNumber, "primary", NoId, t),
                  Response(created.id,
                           IF created.email # NULL THEN <<created.email>> ELSE <<>>,
                           IF created.phoneNumber # NULL THEN <<created.phoneNumber>> ELSE <<>>,
                           <<>>),
                  {}, created.id, {})
          : t \in CreatedAtChoices(store)}

(* Lines 185-254: the final group and the response *)
Project(store, primary, groupIds, created, demoted) ==
    {LET freshPrimary == CHOOSE c \in Rows(store) : c.id = primary.id
     IN TxOk(store,
             Response(freshPrimary.id,
                      UniqueValues(finalGroup, freshPrimary, "email"),
                      UniqueValues(finalGroup, freshPrimary, "phoneNumber"),
                      SecondaryContactIds(finalGroup, freshPrimary)),
             groupIds, created, demoted)
     : finalGroup \in OrderByCreatedAt(GroupRootedAt(store, primary.id))}

(* Lines 119-254 for one array `group` as the expansion loop left it *)
MergeGroup(store, email, phoneNumber, expanded) ==
    LET group == ArraySort(expanded)
        primary == ElectPrimary(group)
        otherPrimaries == OtherPrimaries(group, primary)
        store1 == IF otherPrimaries # {}
                  THEN UpdateManyToSecondary(store, otherPrimaries, primary.id)
                  ELSE store
        normalizedGroup == GroupRootedAt(store1, primary.id)
    IN IF ShouldCreateSecondary(normalizedGroup, email, phoneNumber)
       THEN IF UniqueEmailViolated(store1, email)
            THEN {TxThrows("P2002", SeqIds(group), store1, otherPrimaries)}
            ELSE UNION {Project(CreateContact(store1, email, phoneNumber,
                                              "secondary", primary.id, t),
                                primary, SeqIds(group), Len(store1) + 1, otherPrimaries)
                        : t \in CreatedAtChoices(store1)}
       ELSE Project(store1, primary, SeqIds(group), NoId, otherPrimaries)

(* identifyInTransaction: every outcome the body can have on `store` *)
identifyInTransaction(store, in) ==
    LET email == normalizeEmail(in.email)
        phoneNumber == normalizePhone(in.phoneNumber)
        direct == DirectMatches(store, email, phoneNumber)
    IN IF direct = {} THEN CreatePrimary(store, email, phoneNumber)
       ELSE UNION {MergeGroup(store, email, phoneNumber, expanded) :
                     expanded \in UNION {ExpandGroup(store, directMatches) :
                                           directMatches \in OrderByCreatedAt(direct)}}

----------------------------------------------------------------------------
(* identifyContact: validateInput, then the retry loop around              *)
(* prisma.$transaction(..., { isolationLevel: Serializable })              *)

NoInput == [email |-> NULL, phoneNumber |-> NULL]

Normalized(in) ==
    [email |-> normalizeEmail(in.email), phoneNumber |-> normalizePhone(in.phoneNumber)]

(* What identifyContact hands back: a response, or a thrown error with its *)
(* statusCode (400 from validateInput, none otherwise) and Prisma code.    *)
Returned(response) ==
    [kind |-> "return", statusCode |-> 0, code |-> "", response |-> response]

Thrown(statusCode, code) ==
    [kind |-> "throw", statusCode |-> statusCode, code |-> code, response |-> NoResponse]

NoOut == [kind |-> "none", statusCode |-> 0, code |-> "", response |-> NoResponse]

(* Store failures that can hit a transaction at any of its queries: a      *)
(* serialization conflict or deadlock (P2034), a lost connection (P1001).  *)
EnvFailures == {"P2034", "P1001"}

(* Mutant: the transaction runs at an isolation level that lets it commit *)
(* whatever other transactions committed meanwhile                        *)
NoSerializationConflict(p, o) == FALSE

(* Serializable isolation: a transaction that wrote cannot commit once the *)
(* table it read from has been changed by another commit.                  *)
SerializationConflict(p, o) == o.store # snap[p] /\ snap[p] # db

(* The committed table once a transaction commits: the rows it updated are *)
(* replaced, the row it created is appended under the next id.             *)
ApplyCommit(current, snapshot, result) ==
    LET updated == [i \in DOMAIN current |->
                       IF i <= Len(snapshot) /\ result[i] # snapshot[i]
                       THEN result[i] ELSE current[i]]
    IN IF Len(result) > Len(snapshot)
       THEN Append(updated, [result[Len(result)] EXCEPT !.id = Len(current) + 1])
       ELSE updated

(* Mutant: every failure is retried while attempts are left *)
RetriesAnyFailure(code, n) == n < MAX_SERIALIZABLE_RETRIES

(* Mutant: the comparison admits one attempt too many *)
RetriesConflictInclusive(code, n) == code = "P2034" /\ n <= MAX_SERIALIZABLE_RETRIES

(* err.code === 'P2034' && attempt < MAX_SERIALIZABLE_RETRIES *)
RetriesConflict(code, n) == code = "P2034" /\ n < MAX_SERIALIZABLE_RETRIES

NoTx == TxThrows("", {}, <<>>, {})

NoPrior == [repeats |-> FALSE, follows |-> FALSE, earlier |-> NoResponse]

NoCall ==
    [caller |-> "", input |-> NoInput, out |-> NoOut,
     before |-> <<>>, after |-> <<>>, group |-> {}, created |-> NoId,
     demoted |-> {}, prior |-> NoPrior]

(* The finished call `c` returned, and a call with input `in` that starts  *)
(* on the table `store` repeats its request on the table it left.          *)
Repeats(c, in, store) ==
    /\ c.out.kind = "return"
    /\ Normalized(c.input) = Normalized(in)
    /\ c.after = store

(* The finished call `c` merged two primaries, and a call with input `in`  *)
(* that starts on the table it left matches a contact of the merged group. *)
FollowsMerge(c, in, store) ==
    /\ c.out.kind = "return"
    /\ c.demoted # {}
    /\ c.after = store
    /\ \E m \in DirectMatches(store, Normalized(in).email, Normalized(in).phoneNumber) :
          m.id \in c.group

PriorOf(c, in, store) ==
    IF Repeats(c, in, store) \/ FollowsMerge(c, in, store)
    THEN [repeats |-> Repeats(c, in, store), follows |-> FollowsMerge(c, in, store),
          earlier |-> c.out.response]
    ELSE NoPrior

Init ==
    /\ db = <<>>
    /\ pc = [p \in Callers |-> "idle"]
    /\ input = [p \in Callers |-> NoInput]
    /\ attempt = [p \in Callers |-> 0]
    /\ snap = [p \in Callers |-> <<>>]
    /\ budget = Unlimited
    /\ prior = [p \in Callers |-> NoPrior]
    /\ last = NoCall

(* identifyContact(prisma, in) is called and validateInput throws *)
Reject(p, in) ==
    /\ pc[p] = "idle"
    /\ ~validateInput(in)
    /\ budget # 0
    /\ budget' = IF budget = Unlimited THEN budget ELSE budget - 1
    /\ last' = [NoCall EXCEPT !.caller = p, !.input = in, !.out = Thrown(400, "")]
    /\ UNCHANGED <<db, pc, input, attempt, snap, prior>>

(* identifyContact(prisma, in) is called, validateInput returns, and the   *)
(* loop opens the transaction of attempt 1: it reads from now on what is   *)
(* committed at this moment, and its own writes.                           *)
Accept(p, in) ==
    /\ pc[p] = "idle"
    /\ validateInput(in)
    /\ budget # 0
    /\ budget' = IF budget = Unlimited THEN budget ELSE budget - 1
    /\ input' = [input EXCEPT ![p] = in]
    /\ attempt' = [attempt EXCEPT ![p] = 1]
    /\ snap' = [snap EXCEPT ![p] = db]
    /\ pc' = [pc EXCEPT ![p] = "inTx"]
    /\ prior' = [prior EXCEPT ![p] = PriorOf(last, in, db)]
    /\ last' = NoCall
    /\ UNCHANGED db

(* The caller is idle again *)
Leave(p) ==
    /\ pc' = [pc EXCEPT ![p] = "idle"]
    /\ input' = [input EXCEPT ![p] = NoInput]
    /\ attempt' = [attempt EXCEPT ![p] = 0]
    /\ snap' = [snap EXCEPT ![p] = <<>>]
    /\ prior' = [prior EXCEPT ![p] = NoPrior]

(* The body ran to its return and the transaction commits *)
Commit(p) ==
    /\ pc[p] = "inTx"
    /\ \E o \in identifyInTransaction(snap[p], input[p]) :
          /\ o.ok
          /\ ~SerializationConflict(p, o)
          /\ db' = ApplyCommit(db, snap[p], o.store)
          /\ Len(db') <= MaxContacts
          /\ last' = [caller |-> p, input |-> input[p],
                      out |-> Returned(o.response),
                      before |-> snap[p], after |-> o.store, group |-> o.group,
                      created |-> o.created, demoted |-> o.demoted,
                      prior |-> prior[p]]
    /\ Leave(p)
    /\ UNCHANGED budget

(* The codes the open transaction of p fails with by what it does: the     *)
(* unique index refusing a create, a conflict at commit.                   *)
Failures(p) ==
    LET outcomes == identifyInTransaction(snap[p], input[p])
    IN {o.code : o \in {x \in outcomes : ~x.ok}}
       \cup {"P2034" : o \in {x \in outcomes : x.ok /\ SerializationConflict(p, x)}}

(* What the open transaction of p had written, and which primaries it had  *)
(* demoted, when it failed with `code`: all the body wrote when the create *)
(* or the commit refused; for a failure of the store itself, what it wrote *)
(* up to any of its queries.                                               *)
Written(p, code) ==
    LET outcomes == identifyInTransaction(snap[p], input[p])
        at(store, demoted) == [store |-> store, demoted |-> demoted]
        thrown == {at(o.store, o.demoted) : o \in {x \in outcomes : ~x.ok /\ x.code = code}}
        conflicting == {at(o.store, o.demoted) :
                           o \in {x \in outcomes : x.ok /\ SerializationConflict(p, x)}}
        anywhere == {at(snap[p], {})}
                    \cup {at(o.store, o.demoted) : o \in outcomes}
                    \cup {at(UpdateManyToSecondary(snap[p], o.demoted,
                                                   o.response.primaryContatctId), o.demoted)
                             : o \in {x \in outcomes : x.ok}}
    IN IF code \in EnvFailures
       THEN anywhere
       ELSE thrown \cup (IF code = "P2034" THEN conflicting ELSE {})

(* Mutant: what the failed transaction wrote stays in the table *)
NotRolledBack(committed, written) == written

(* prisma.$transaction rejects: the interactive transaction is rolled back *)
(* and the table is the committed one                                      *)
RolledBack(committed, written) == committed

(* catch (err): a conflict with attempts left: the transaction is rolled   *)
(* back, and after 20 * attempt ms the loop opens the next one             *)
Retry(p, code) ==
    /\ pc[p] = "inTx"
    /\ RetriesConflict(code, attempt[p])
    /\ \E w \in Written(p, code) : db' = RolledBack(db, w.store)
    /\ attempt' = [attempt EXCEPT ![p] = attempt[p] + 1]
    /\ snap' = [snap EXCEPT ![p] = db']
    /\ prior' = [prior EXCEPT ![p] = IF db' = snap[p] THEN prior[p] ELSE NoPrior]
    /\ UNCHANGED <<pc, input, budget, last>>

(* catch (err): anything else is logged and rethrown; the transaction is   *)
(* rolled back                                                             *)
Rethrow(p, code) ==
    /\ pc[p] = "inTx"
    /\ ~RetriesConflict(code, attempt[p])
    /\ \E w \in Written(p, code) :
          /\ db' = RolledBack(db, w.store)
          /\ last' = [NoCall EXCEPT !.caller = p, !.input = input[p],
                                    !.out = Thrown(0, code),
                                    !.before = snap[p], !.after = snap[p],
                                    !.demoted = w.demoted]
    /\ Leave(p)
    /\ UNCHANGED budget

(* One caller, one request after the other, on a store that fails a       *)
(* transaction only where the transaction itself makes it: with no other  *)
(* caller there is no conflict, and the catch block never retries.        *)
Next ==
    \/ \E in \in Requests : Reject("c1", in)
    \/ \E in \in Requests : Accept("c1", in)
    \/ Commit("c1")
    \/ \E code \in Failures("c1") : Rethrow("c1", code)

Spec == Init /\ [][Next]_vars

(* Several callers side by side; the store fails a transaction only where *)
(* the transactions themselves make it                                     *)
ConcurrentNext ==
    \E p \in Callers :
        \/ \E in \in OverlappingRequests : Reject(p, in)
        \/ \E in \in OverlappingRequests : Accept(p, in)
        \/ Commit(p)
        \/ \E code \in Failures(p) : Retry(p, code)
        \/ \E code \in Failures(p) : Rethrow(p, code)

ConcurrentInit ==
    /\ db = <<>>
    /\ pc = [p \in Callers |-> "idle"]
    /\ input = [p \in Callers |-> NoInput]
    /\ attempt = [p \in Callers |-> 0]
    /\ snap = [p \in Callers |-> <<>>]
    /\ budget = MaxCalls
    /\ prior = [p \in Callers |-> NoPrior]
    /\ last = NoCall

ConcurrentSpec == ConcurrentInit /\ [][ConcurrentNext]_vars

(* One caller, one request after the other, on a store that may fail any  *)
(* query of any attempt with a conflict or a lost connection; the caller   *)
(* starts MaxCalls calls, as the callers of ConcurrentInit do.             *)
FaultyNext ==
    \/ \E in \in Requests : Reject("c1", in)
    \/ \E in \in Requests : Accept("c1", in)
    \/ Commit("c1")
    \/ \E code \in Failures("c1") \cup EnvFailures : Retry("c1", code)
    \/ \E code \in Failures("c1") \cup EnvFailures : Rethrow("c1", code)

FaultySpec == ConcurrentInit /\ [][FaultyNext]_vars

(* The resolver alone (lines 52-117) on any table the store can hold: up   *)
(* to MaxContacts rows, some of them soft-deleted, no email twice (the     *)
(* unique index), all of one createdAt so that findMany may return them in *)
(* any order.                                                              *)
ResolverRows ==
    {[Contact(NoId, email, phoneNumber, "primary", NoId, 1) EXCEPT !.deletedAt = deletedAt] :
        email \in {NULL, <<"a">>, <<"b">>},
        phoneNumber \in {NULL, <<"1">>, <<"2">>},
        deletedAt \in {NULL, <<"t">>}}

ResolverTables ==
    {t \in UNION {{[i \in 1..n |-> [rows[i] EXCEPT !.id = i]] : rows \in [1..n -> ResolverRows]}
                    : n \in 0..MaxContacts} :
        /\ \A i \in DOMAIN t : t[i].email # NULL \/ t[i].phoneNumber # NULL
        /\ \A i, j \in DOMAIN t : (i # j /\ t[i].email # NULL) => t[i].email # t[j].email}

ResolverInit ==
    /\ db \in ResolverTables
    /\ pc = [p \in Callers |-> "idle"]
    /\ input = [p \in Callers |-> NoInput]
    /\ attempt = [p \in Callers |-> 0]
    /\ snap = [p \in Callers |-> <<>>]
    /\ budget = Unlimited
    /\ prior = [p \in Callers |-> NoPrior]
    /\ last = NoCall

Resolved == [NoOut EXCEPT !.kind = "resolved"]

(* Lines 52-117 for the request `in`: the direct matches and the expansion *)
(* loop; the ids of the group it ends with are recorded.                   *)
Resolve(in) ==
    /\ validateInput(in)
    /\ LET email == normalizeEmail(in.email)
           phoneNumber == normalizePhone(in.phoneNumber)
           direct == DirectMatches(db, email, phoneNumber)
       IN \E directMatches \in OrderByCreatedAt(direct) :
            \E group \in ExpandGroup(db, directMatches) :
                last' = [NoCall EXCEPT !.input = in, !.out = Resolved,
                                       !.before = db, !.after = db,
                                       !.group = SeqIds(group)]
    /\ UNCHANGED <<db, pc, input, attempt, snap, budget, prior>>

ResolverNext == \E in \in Requests : Resolve(in)

ResolverSpec == ResolverInit /\ [][ResolverNext]_vars

----------------------------------------------------------------------------
(* Vocabulary of the properties *)

Row(store, id) == store[id]

(* Two contacts share an email or share a phone *)
Shares(c, d) ==
    \/ (c.email # NULL /\ c.email = d.email)
    \/ (c.phoneNumber # NULL /\ c.phoneNumber = d.phoneNumber)

(* The non-deleted contacts transitively joined to those of S *)
RECURSIVE Joined(_, _)
Joined(store, S) ==
    LET more == {d \in Rows(store) :
                    d.deletedAt = NULL /\ d \notin S /\ \E c \in S : Shares(c, d)}
    IN IF more = {} THEN S ELSE Joined(store, S \cup more)

ClusterOf(store, c) == Joined(store, {c})

Primaries(S) == {c \in S : c.linkPrecedence = "primary"}

(* The latest step finished a call that returned a response *)
LastReturned == last.out.kind = "return"

LastResponse == last.out.response

LastInput == Normalized(last.input)

ResponseIds(r) ==
    {r.primaryContatctId} \cup {r.secondaryContactIds[i] : i \in DOMAIN r.secondaryContactIds}

Elements(seq) == {seq[i] : i \in DOMAIN seq}

(* No two contacts of the table share a createdAt *)
NoTies(store) ==
    \A i, j \in DOMAIN store : i # j => store[i].createdAt # store[j].createdAt

(* The contacts a request reaches on `store`: its direct matches and all   *)
(* that shared emails and phones join to them                              *)
Reached(store, in) ==
    Joined(store, DirectMatches(store, in.email, in.phoneNumber))

(* The latest step finished a call whose transaction ran: it returned, or  *)
(* it threw something that is no failure of the store's own.               *)
LastRan ==
    \/ LastReturned
    \/ (last.out.kind = "throw" /\ last.out.statusCode # 400
        /\ last.out.code \notin EnvFailures)

----------------------------------------------------------------------------
(* C1: every cluster of contacts joined by shared emails or phones holds   *)
(* exactly one primary contact, and every other contact of the cluster is  *)
(* linked to that primary.  Stated for the tables in which no two contacts *)
(* share a createdAt, where the election of the primary does not depend on *)
(* the order of the rows.                                                  *)
C1_OnePrimaryPerCluster ==
    NoTies(db) =>
        \A c \in Rows(db) :
            LET cluster == ClusterOf(db, c)
            IN \E p \in cluster :
                  /\ Primaries(cluster) = {p}
                  /\ \A m \in cluster \ {p} : m.linkedId = p.id

(* C2: no contact is linked to a secondary contact.  Stated for the tables *)
(* in which no two contacts share a createdAt.                             *)
C2_NoLinkToSecondary ==
    NoTies(db) =>
        \A c \in Rows(db) :
            c.linkedId # NoId => Row(db, c.linkedId).linkPrecedence = "primary"

(* C3: a call that returns has every contact it reached, directly or       *)
(* through shared emails and phones, in its response, as the primary or    *)
(* among the secondaries, and its primary is the oldest of them.  Stated   *)
(* for the tables in which no two contacts share a createdAt.              *)
C3_TransitiveMerge ==
    (LastReturned /\ last.group # {} /\ NoTies(last.before)) =>
        /\ last.group \subseteq ResponseIds(LastResponse)
        /\ LastResponse.primaryContatctId \in last.group
        /\ \A id \in last.group :
              Row(last.before, LastResponse.primaryContatctId).createdAt
                  <= Row(last.before, id).createdAt

(* C4: a call whose group holds two primaries returns the older one, P1    *)
(* (the oldest primary of the group), and leaves the younger one, P2, a    *)
(* secondary linked to P1; the next call that matches a contact of the     *)
(* merged group returns P1 as well.  Stated for the tables in which no two *)
(* contacts share a createdAt.                                             *)
C4_OldestWins ==
    (LastReturned /\ NoTies(last.before)) =>
        /\ \A id1, id2 \in last.group :
              LET P1 == Row(last.before, id1)
                  P2 == Row(last.before, id2)
              IN (/\ P1.linkPrecedence = "primary"
                  /\ P2.linkPrecedence = "primary"
                  /\ P1.createdAt < P2.createdAt
                  /\ \A id \in last.group :
                        Row(last.before, id).linkPrecedence = "primary"
                            => P1.createdAt <= Row(last.before, id).createdAt)
                 => /\ LastResponse.primaryContatctId = P1.id
                    /\ Row(last.after, id2).linkPrecedence = "secondary"
                    /\ Row(last.after, id2).linkedId = P1.id
        /\ last.prior.follows =>
              LastResponse.primaryContatctId = last.prior.earlier.primaryContatctId

(* C5: a call that repeats the request of the call before it, on the table *)
(* that call left, creates no row, changes no row and returns the same     *)
(* response.                                                               *)
C5_Idempotent ==
    (LastReturned /\ last.prior.repeats) =>
        /\ last.after = last.before
        /\ last.created = NoId
        /\ LastResponse = last.prior.earlier

(* C6: a call whose email and phone no contact carries creates exactly one *)
(* contact, a primary with no link that carries the request's values, and  *)
(* returns its id with exactly those values and no secondary; the unique   *)
(* index never refuses that create.                                        *)
C6_NoMatchCreatesPrimary ==
    (LastRan /\ DirectMatches(last.before, LastInput.email, LastInput.phoneNumber) = {}) =>
        /\ LastReturned
        /\ last.after = Append(last.before, last.after[Len(last.after)])
        /\ LET c == last.after[Len(last.after)]
           IN /\ c.id = Len(last.before) + 1
              /\ c.linkPrecedence = "primary"
              /\ c.linkedId = NoId
              /\ c.email = LastInput.email
              /\ c.phoneNumber = LastInput.phoneNumber
              /\ c.deletedAt = NULL
              /\ LastResponse.primaryContatctId = c.id
        /\ LastResponse.emails =
              (IF LastInput.email # NULL THEN <<LastInput.email>> ELSE <<>>)
        /\ LastResponse.phoneNumbers =
              (IF LastInput.phoneNumber # NULL THEN <<LastInput.phoneNumber>> ELSE <<>>)
        /\ LastResponse.secondaryContactIds = <<>>

(* A primary was created beside contacts that were already there *)
C6_Witness ==
    /\ LastReturned
    /\ last.before # <<>>
    /\ DirectMatches(last.before, LastInput.email, LastInput.phoneNumber) = {}
    /\ last.created = Len(last.before) + 1

(* C7: a call that matches contacts and brings an email or a phone that no *)
(* contact it reaches carries returns, having created exactly one contact: *)
(* a secondary linked to the returned primary that carries the request's   *)
(* values; its id is among the returned secondaries, its values among the  *)
(* returned emails and phoneNumbers, and the primary is the oldest contact *)
(* reached.                                                                *)
C7_NewAttributeCreatesSecondary ==
    LET reached == Reached(last.before, LastInput)
        news == \/ /\ LastInput.email # NULL
                   /\ LastInput.email \notin {c.email : c \in reached}
                \/ /\ LastInput.phoneNumber # NULL
                   /\ LastInput.phoneNumber \notin {c.phoneNumber : c \in reached}
    IN (LastRan /\ reached # {} /\ news) =>
          /\ LastReturned
          /\ last.created = Len(last.before) + 1
          /\ Len(last.after) = Len(last.before) + 1
          /\ LET c == last.after[Len(last.after)]
             IN /\ c.linkPrecedence = "secondary"
                /\ c.linkedId = LastResponse.primaryContatctId
                /\ c.email = LastInput.email
                /\ c.phoneNumber = LastInput.phoneNumber
                /\ c.id \in Elements(LastResponse.secondaryContactIds)
          /\ LastInput.email # NULL => LastInput.email \in Elements(LastResponse.emails)
          /\ LastInput.phoneNumber # NULL =>
                LastInput.phoneNumber \in Elements(LastResponse.phoneNumbers)
          /\ \A c \in reached :
                Row(last.before, LastResponse.primaryContatctId).createdAt <= c.createdAt

(* C8: a call whose email and phone are both absent or empty once          *)
(* normalized throws statusCode 400 in a step that opens no transaction,   *)
(* counts no attempt and leaves the table as it is; no transaction is ever *)
(* open for such a request.                                                *)
C8_ValidationRejects ==
    [][/\ (last' # last /\ last'.out.kind # "none" /\ Normalized(last'.input) = NoInput)
            => /\ last'.out = Thrown(400, "")
               /\ db' = db
               /\ pc' = pc
               /\ attempt' = attempt
               /\ snap' = snap
       /\ \A p \in Callers :
            pc'[p] = "inTx" => Normalized(input'[p]) # NoInput]_vars

(* A request of blanks and dashes was rejected on a table that has rows *)
C8_Witness ==
    /\ last.out.statusCode = 400
    /\ last.input = [email |-> <<" ">>, phoneNumber |-> <<"-">>]
    /\ db # <<>>

(* No two contacts carry the same email and phone, and no two primaries   *)
(* share an email or share a phone                                        *)
NoDuplicates(store) ==
    \A i, j \in DOMAIN store :
        i # j =>
            /\ ~(store[i].email = store[j].email
                 /\ store[i].phoneNumber = store[j].phoneNumber)
            /\ (store[i].linkPrecedence = "primary" /\ store[j].linkPrecedence = "primary")
                  => ~Shares(store[i], store[j])

(* C9: however the calls of several callers interleave, the table never   *)
(* holds duplicate primaries or duplicate contacts, and every change of   *)
(* the table is what the committing call does when it runs alone on the   *)
(* table as committed so far: the committed calls act one after another.  *)
C9_Serializable ==
    /\ [](NoDuplicates(db))
    /\ [][db' # db =>
            \E p \in Callers :
                /\ pc[p] = "inTx" /\ pc'[p] = "idle"
                /\ \E o \in identifyInTransaction(db, input[p]) :
                      o.ok /\ db' = o.store]_vars

(* A caller is in its second attempt after the other caller, with the     *)
(* same request for values no contact carried, committed a new primary    *)
C9_Witness ==
    \E p \in Callers :
        /\ pc[p] = "inTx"
        /\ attempt[p] = 2
        /\ LastReturned
        /\ last.caller # p
        /\ LastInput = Normalized(input[p])
        /\ last.before = <<>>
        /\ last.created # NoId
        /\ db = last.after

(* C10: the transaction of a call runs at most 3 times; a conflict on     *)
(* attempt 1 or 2 opens the next attempt for the same request on the      *)
(* table as committed, with nothing written; a conflict is thrown to the  *)
(* caller only by attempt 3.                                              *)
C10_BoundedRetry ==
    /\ [](\A p \in Callers : attempt[p] <= 3)
    /\ [][/\ \A p \in Callers :
                attempt'[p] > attempt[p] /\ attempt[p] >= 1
                    => /\ attempt[p] < 3
                       /\ attempt'[p] = attempt[p] + 1
                       /\ pc'[p] = "inTx"
                       /\ input'[p] = input[p]
                       /\ snap'[p] = db
                       /\ db' = db
          /\ (last' # last /\ last'.out.code = "P2034")
                => /\ last'.out.kind = "throw"
                   /\ attempt[last'.caller] = 3]_vars

(* The third attempt ended in a conflict and the call threw it *)
C10_Witness ==
    /\ last.out.kind = "throw"
    /\ last.out.code = "P2034"
    /\ last.before # <<>>

(* C11: a step in which an attempt fails, whether the call retries or     *)
(* throws, leaves the committed table as it was, whatever the transaction  *)
(* had written (a demotion, a create) up to the failure; the next attempt  *)
(* and every other call read that committed table.                         *)
C11_AllOrNothing ==
    [][/\ \A p \in Callers :
            (pc[p] = "inTx" /\ attempt'[p] = attempt[p] + 1)
                => (db' = db /\ snap'[p] = db)
       /\ (last' # last /\ last'.out.kind = "throw") => db' = db
       /\ \A p \in Callers :
            (pc[p] = "idle" /\ pc'[p] = "inTx") => snap'[p] = db]_vars

(* The unique index refused a create after the transaction had demoted a  *)
(* primary, and the call threw                                             *)
C11_Witness ==
    /\ last.out.kind = "throw"
    /\ last.out.code = "P2002"
    /\ last.demoted # {}
    /\ \E id \in last.demoted : Row(db, id).linkPrecedence = "primary"

(* C12: in every response, the email of the returned primary, when it has *)
(* one, is emails[0], its phone, when it has one, is phoneNumbers[0], and  *)
(* secondaryContactIds is strictly ascending; every order in which the     *)
(* store may return the rows yields such a response.                       *)
C12_OrderingDeterminism ==
    LastReturned =>
        LET r == LastResponse
            primary == Row(last.after, r.primaryContatctId)
        IN /\ primary.email # NULL =>
                 (r.emails # <<>> /\ r.emails[1] = primary.email)
           /\ primary.phoneNumber # NULL =>
                 (r.phoneNumbers # <<>> /\ r.phoneNumbers[1] = primary.phoneNumber)
           /\ \A i, j \in DOMAIN r.secondaryContactIds :
                 i < j => r.secondaryContactIds[i] < r.secondaryContactIds[j]

(* A response of two secondaries and two emails, for a final group in     *)
(* which two contacts share a createdAt, so that the store may return them *)
(* in either order                                                         *)
C12_Witness ==
    /\ LastReturned
    /\ Len(LastResponse.secondaryContactIds) >= 2
    /\ Len(LastResponse.emails) >= 2
    /\ \E c, d \in GroupRootedAt(last.after, LastResponse.primaryContatctId) :
          c # d /\ c.createdAt = d.createdAt

(* C13: a failure of the transaction that is no serialization conflict    *)
(* (a lost connection, a refused create) is never retried, on whichever    *)
(* attempt it happens: the catch block's condition is false for it, an     *)
(* attempt is followed by another one only when the store found a conflict *)
(* at its commit, and the step in which the call throws such a failure     *)
(* ends the call with the table as it was.                                 *)
C13_OtherFailuresNotRetried ==
    /\ [](\A p \in Callers :
            pc[p] = "inTx" =>
                \A code \in (Failures(p) \cup EnvFailures) \ {"P2034"} :
                    ~RetriesConflict(code, attempt[p]))
    /\ [][/\ \A p \in Callers :
                (pc[p] = "inTx" /\ attempt'[p] = attempt[p] + 1)
                    => \E o \in identifyInTransaction(snap[p], input[p]) :
                          o.ok /\ SerializationConflict(p, o)
          /\ (/\ last' # last
              /\ last'.out.kind = "throw"
              /\ last'.out.statusCode # 400
              /\ last'.out.code # "P2034")
                => /\ pc[last'.caller] = "inTx"
                   /\ pc'[last'.caller] = "idle"
                   /\ attempt'[last'.caller] = 0
                   /\ db' = db]_vars

(* The unique index refused the create of a call that was in its first    *)
(* attempt, and the call threw, while the other caller's transaction was   *)
(* open                                                                    *)
C13_Witness ==
    /\ last.out.kind = "throw"
    /\ last.out.code = "P2002"
    /\ \E p \in Callers : p # last.caller /\ pc[p] = "inTx"

(* C14: for every table and every request, the group the resolver ends    *)
(* with is exactly the connected component of the request's direct        *)
(* matches under "shares an email or shares a phone" among the contacts    *)
(* that are not deleted: none outside it, none of it missing; with no      *)
(* direct match it is empty.                                               *)
C14_ResolverComplete ==
    last.out.kind = "resolved" =>
        last.group = {c.id : c \in Reached(last.before, LastInput)}

(* The resolver ended with a group larger than the direct matches, on a   *)
(* table where a deleted contact shares a value with the group             *)
C14_Witness ==
    /\ last.out.kind = "resolved"
    /\ Cardinality(last.group) >
          Cardinality(DirectMatches(last.before, LastInput.email, LastInput.phoneNumber))
    /\ \E c, d \in Rows(last.before) :
          c.deletedAt # NULL /\ d.id \in last.group /\ Shares(c, d)

(* C15: on every table and for every request, the expansion loop ends     *)
(* within as many pushing rounds as the table has rows; every round that   *)
(* does not end the loop makes the group longer, and no id is in the group *)
(* twice at any round. The groups the loop returns are those of its last   *)
(* round.                                                                  *)
C15_ExpansionTerminates ==
    \A in \in Requests :
        LET direct == DirectMatches(db, Normalized(in).email, Normalized(in).phoneNumber)
        IN (validateInput(in) /\ direct # {}) =>
              \A directMatches \in OrderByCreatedAt(direct) :
                 /\ \A tr \in ExpandRounds(db, directMatches, Len(db) + 1) :
                       /\ \A k \in DOMAIN tr : Cardinality(SeqIds(tr[k])) = Len(tr[k])
                       /\ \A k \in 1..(Len(tr) - 1) : Len(tr[k + 1]) > Len(tr[k])
                       /\ Len(tr) <= Len(db)
                       /\ NextMatches(db, tr[Len(tr)]) = {}
                 /\ ExpandGroup(db, directMatches) =
                       {tr[Len(tr)] : tr \in ExpandRounds(db, directMatches, Len(db) + 1)}

(* The loop pushed contacts in a round and ended in the next, on a table  *)
(* of three contacts that are not deleted                                  *)
C15_Witness ==
    /\ last.out.kind = "resolved"
    /\ Len(last.before) = 3
    /\ \A c \in Rows(last.before) : c.deletedAt = NULL
    /\ Cardinality(last.group) = 3
    /\ Cardinality(DirectMatches(last.before, LastInput.email, LastInput.phoneNumber)) = 1

(* The request of the latest call supplies exactly one of email and phone *)
LastSingleAttribute == (LastInput.email = NULL) # (LastInput.phoneNumber = NULL)

(* C16: a call that supplies only an email or only a phone, a value some   *)
(* contact of the matched cluster already carries, creates no row, whether *)
(* it returns or throws, however much more the cluster carries.            *)
C16_AbsenceNotNew ==
    (/\ LastRan
     /\ LastSingleAttribute
     /\ DirectMatches(last.before, LastInput.email, LastInput.phoneNumber) # {})
        => /\ last.created = NoId
           /\ Len(last.after) = Len(last.before)
           /\ Len(db) = Len(last.before)

(* A call with a phone only returned without creating a row, for a group  *)
(* that carries emails as well                                             *)
C16_Witness ==
    /\ LastReturned
    /\ LastInput.email = NULL
    /\ LastInput.phoneNumber # NULL
    /\ \E id \in last.group : Row(last.before, id).email # NULL
    /\ last.created = NoId
    /\ last.after = last.before

(* C17: a call that returns leaves every contact that existed in the      *)
(* table, with its id, email, phoneNumber, createdAt and deletedAt; the    *)
(* rows it changed are members of the group that were primary and are not  *)
(* the elected primary, and they became secondaries of the elected one;    *)
(* contacts that were secondary, or outside the group, are as they were.   *)
C17_Frame ==
    LastReturned =>
        /\ db = last.after
        /\ Len(last.after) >= Len(last.before)
        /\ \A i \in DOMAIN last.before :
              LET b == last.before[i]
                  a == last.after[i]
              IN /\ a.id = b.id
                 /\ a.email = b.email
                 /\ a.phoneNumber = b.phoneNumber
                 /\ a.createdAt = b.createdAt
                 /\ a.deletedAt = b.deletedAt
                 /\ a # b =>
                       /\ b.id \in last.group
                       /\ b.linkPrecedence = "primary"
                       /\ b.id # LastResponse.primaryContatctId
                       /\ a.linkPrecedence = "secondary"
                       /\ a.linkedId = LastResponse.primaryContatctId
                 /\ (b.linkPrecedence = "secondary" \/ b.id \notin last.group) => a = b

(* A call demoted a primary while its group held a secondary linked to    *)
(* another contact than the elected primary, which it left as it was       *)
C17_Witness ==
    /\ LastReturned
    /\ last.demoted # {}
    /\ \E id \in last.group \ {LastResponse.primaryContatctId} :
          /\ Row(last.before, id).linkPrecedence = "secondary"
          /\ Row(last.before, id).linkedId # LastResponse.primaryContatctId
          /\ Row(last.after, id) = Row(last.before, id)

(* The final group of the latest call: the returned primary and the       *)
(* contacts linked to it                                                   *)
LastFinalGroup == GroupRootedAt(last.after, LastResponse.primaryContatctId)

(* The createdAt of the earliest contact of S that carries v as its f *)
EarliestCarrying(S, f, v) ==
    CHOOSE t \in {c.createdAt : c \in {d \in S : d[f] = v}} :
        \A c \in {d \in S : d[f] = v} : t <= c.createdAt

(* `list` holds every value the contacts of S have for f, each once, the  *)
(* primary's own first, the others by the createdAt of the earliest        *)
(* contact that carries each                                               *)
Projects(list, S, primary, f) ==
    /\ Elements(list) = {c[f] : c \in S} \ {NULL}
    /\ \A i, j \in DOMAIN list : i # j => list[i] # list[j]
    /\ primary[f] # NULL => list[1] = primary[f]
    /\ \A i, j \in DOMAIN list :
          (i < j /\ list[i] # primary[f] /\ list[j] # primary[f])
              => EarliestCarrying(S, f, list[i]) <= EarliestCarrying(S, f, list[j])

(* C18: the response of a call lists every distinct email of the final    *)
(* group (the primary and the contacts whose linkedId is its id) exactly   *)
(* once, the primary's first and the others by ascending createdAt of the  *)
(* earliest contact carrying each; the same for the phones; and            *)
(* secondaryContactIds holds exactly the members that are secondary and    *)
(* linked to the primary.                                                  *)
C18_Projector ==
    LastReturned =>
        LET primary == Row(last.after, LastResponse.primaryContatctId)
        IN /\ Projects(LastResponse.emails, LastFinalGroup, primary, "email")
           /\ Projects(LastResponse.phoneNumbers, LastFinalGroup, primary, "phoneNumber")
           /\ Elements(LastResponse.secondaryContactIds) =
                 {c.id : c \in {d \in LastFinalGroup :
                     d.linkPrecedence = "secondary"
                     /\ d.linkedId = LastResponse.primaryContatctId}}
           /\ Len(LastResponse.secondaryContactIds) =
                 Cardinality(Elements(LastResponse.secondaryContactIds))

(* A final group of three contacts whose primary has no email: the two   *)
(* emails are listed by the createdAt of their contacts, which differ, and *)
(* the phone all three carry is listed once                                *)
C18_Witness ==
    /\ LastReturned
    /\ Cardinality(LastFinalGroup) = 3
    /\ Row(last.after, LastResponse.primaryContatctId).email = NULL
    /\ Len(LastResponse.emails) = 2
    /\ \E c, d \in LastFinalGroup :
          c.email # NULL /\ d.email # NULL /\ c.createdAt < d.createdAt
    /\ \A c \in LastFinalGroup :
          c.phoneNumber = Row(last.after, LastResponse.primaryContatctId).phoneNumber
    /\ Len(LastResponse.phoneNumbers) = 1

(* C19: when two or more contacts of the resolved group share the         *)
(* earliest createdAt of the group, the call returns the one of them with  *)
(* the lowest id as primary, in whatever order the queries returned them.  *)
C19_TieBreakLowestId ==
    (LastReturned /\ last.group # {}) =>
        LET earliest == {id \in last.group :
                            \A other \in last.group :
                                Row(last.before, id).createdAt
                                    <= Row(last.before, other).createdAt}
        IN Cardinality(earliest) >= 2 =>
              /\ LastResponse.primaryContatctId \in earliest
              /\ \A id \in earliest : LastResponse.primaryContatctId <= id

(* C20: in every table the calls leave, a contact has a linkedId exactly  *)
(* when its linkPrecedence is secondary, a linkedId is the id of a contact *)
(* of the table, and every contact has an email or a phone.                *)
C20_LinkShape ==
    \A c \in Rows(db) :
        /\ c.linkPrecedence \in {"primary", "secondary"}
        /\ (c.linkedId # NoId) <=> (c.linkPrecedence = "secondary")
        /\ c.linkedId # NoId =>
              (c.linkedId \in DOMAIN db /\ Row(db, c.linkedId).id = c.linkedId)
        /\ c.email # NULL \/ c.phoneNumber # NULL
        /\ c.email # <<>> /\ c.phoneNumber # <<>>

(* The table holds a contact a call demoted, a contact created as a       *)
(* secondary, and the primary                                              *)
C20_Witness ==
    /\ LastReturned
    /\ db = last.after
    /\ Len(db) = 3
    /\ last.demoted # {}
    /\ \E c \in Rows(db) :
          c.linkPrecedence = "secondary" /\ c.id \notin last.demoted

(* C21: the flow respects the unique index on email: no two contacts carry *)
(* the same email, and no call has a create refused by the index, that is, *)
(* no call issues a create whose email a contact of the table carries.     *)
C21_UniqueIndexRespected ==
    /\ \A i, j \in DOMAIN db :
          (i # j /\ db[i].email # NULL) => db[i].email # db[j].email
    /\ ~(last.out.kind = "throw" /\ last.out.code = "P2002")

(* C22: a call that returns names as primaryContatctId a contact that, in  *)
(* the table the call commits, is a primary with no link.                  *)
C22_PrimaryIsPrimary ==
    LastReturned =>
        LET p == Row(last.after, LastResponse.primaryContatctId)
        IN /\ p.linkPrecedence = "primary"
           /\ p.linkedId = NoId

(* C23: a call that returns has the request's normalized email, if it has  *)
(* one, among the returned emails, and its normalized phone, if it has     *)
(* one, among the returned phoneNumbers.                                   *)
C23_ResponseHoldsRequest ==
    LastReturned =>
        /\ LastInput.email # NULL => LastInput.email \in Elements(LastResponse.emails)
        /\ LastInput.phoneNumber # NULL =>
              LastInput.phoneNumber \in Elements(LastResponse.phoneNumbers)

(* A request with an email and a phone matched contacts and had a          *)
(* secondary created; its email is not the primary's, and both its values  *)
(* are returned                                                            *)
C23_Witness ==
    /\ LastReturned
    /\ last.group # {}
    /\ last.created # NoId
    /\ LastInput.email # NULL
    /\ LastInput.phoneNumber # NULL
    /\ LastInput.email # Row(last.after, LastResponse.primaryContatctId).email
    /\ LastInput.email \in Elements(LastResponse.emails)
    /\ LastInput.phoneNumber \in Elements(LastResponse.phoneNumbers)

====
